---- MODULE Spec2Model ----
(***************************************************************************)
(* Model of scripts/generate_intake_form.py: the spec validator, the       *)
(* placeholder planner inside build_base_document, the interactive marker  *)
(* resolver (apply_com_controls), the plain fallback and run_generation /  *)
(* main.                                                                   *)
(*                                                                         *)
(* A parsed JSON value is a record [k, m]: k is the Python type of the     *)
(* value ("dict", "list", "str", "num", "bool", "null") and m its content: *)
(* a function from key names to values, a sequence of values, a sequence   *)
(* of one-character strings, an integer, a boolean, or 0 for null.         *)
(***************************************************************************)
EXTENDS Integers, Sequences, FiniteSets, TLC

VARIABLES
    pc,                 \* position of the run inside main / run_generation
    file_state,         \* what load_spec finds at spec_path
    spec,               \* the parsed document tree returned by load_spec
    validate_only,      \* args.validate_only
    no_com,             \* args.no_com
    exc,                \* the exception that is propagating ("none" if none)
    errors,             \* error lines of the raised SpecValidationError
    placeholders,       \* the list returned by build_base_document
    base_doc,           \* paragraph texts of base_form.docx in the temp dir
    word_app,           \* the Word application object: "none", "running", "quit"
    word_doc,           \* [state, text]: the document opened in Word
    ph_index,           \* index of the next placeholder of the loop in apply_com_controls
    counts,             \* counts returned by replace_marker_with_control so far
    replacement_errors, \* accumulated marker-resolution error lines
    out_file,           \* [written, via, text]: the file at the output path
    exit_code           \* return value of main (-1 while running)

vars == <<pc, file_state, spec, validate_only, no_com, exc, errors, placeholders,
          base_doc, word_app, word_doc, ph_index, counts, replacement_errors,
          out_file, exit_code>>

-----------------------------------------------------------------------------
(* JSON values and the Python operations the code applies to them.         *)

Str(s) == [k |-> "str", m |-> s]
Num(n) == [k |-> "num", m |-> n]
Bool(b) == [k |-> "bool", m |-> b]
List(s) == [k |-> "list", m |-> s]
Dict(f) == [k |-> "dict", m |-> f]
Null == [k |-> "null", m |-> 0]

IsDict(v) == v.k = "dict"
IsList(v) == v.k = "list"
IsStr(v) == v.k = "str"
IsBool(v) == v.k = "bool"
\* isinstance(v, (int, float)): bool is a subclass of int
IsNumber(v) == v.k \in {"num", "bool"}
NumberValue(v) == IF v.k = "bool" THEN (IF v.m THEN 1 ELSE 0) ELSE v.m

\* key in d
Has(d, key) == key \in DOMAIN d.m
\* d.get(key, default)
Get(d, key, default) == IF Has(d, key) THEN d.m[key] ELSE default
\* d without the keys of drop
Without(d, drop) == Dict([key \in (DOMAIN d.m) \ drop |-> d.m[key]])
\* d with key set to v
With(d, key, v) ==
    Dict([x \in (DOMAIN d.m) \cup {key} |-> IF x = key THEN v ELSE d.m[x]])

Whitespace == {" ", "\n", "\t"}

RECURSIVE LStrip(_)
LStrip(s) == IF s # <<>> /\ Head(s) \in Whitespace THEN LStrip(Tail(s)) ELSE s

RECURSIVE RStrip(_)
RStrip(s) ==
    IF s # <<>> /\ s[Len(s)] \in Whitespace THEN RStrip(SubSeq(s, 1, Len(s) - 1)) ELSE s

\* str.strip()
Strip(s) == RStrip(LStrip(s))

\* truthiness of a str / list
Truthy(s) == s # <<>>

Digit(d) == <<"0", "1", "2", "3", "4", "5", "6", "7", "8", "9">>[d + 1]

RECURSIVE DecStr(_)
DecStr(n) == IF n < 10 THEN <<Digit(n)>> ELSE DecStr(n \div 10) \o <<Digit(n % 10)>>

\* str(v) for the values a branding colour is drawn from
PyStr(v) ==
    CASE v.k = "str" -> v.m
      [] v.k = "num" -> IF v.m < 0 THEN <<"-">> \o DecStr(0 - v.m) ELSE DecStr(v.m)
      [] v.k = "bool" -> IF v.m THEN <<"T", "r", "u", "e">> ELSE <<"F", "a", "l", "s", "e">>
      [] v.k = "null" -> <<"N", "o", "n", "e">>
      [] v.k = "list" -> <<"[">> \o <<"]">>
      [] v.k = "dict" -> <<"{">> \o <<"}">>

TOP_LEVEL_REQUIRED_KEYS == <<"metadata", "branding", "document_layout", "sections">>
FIELD_REQUIRED_KEYS == <<"id", "label", "type", "required", "help_text">>

T_text_short == <<"t", "e", "x", "t", "_", "s", "h", "o", "r", "t">>
T_text_long == <<"t", "e", "x", "t", "_", "l", "o", "n", "g">>
T_checkbox == <<"c", "h", "e", "c", "k", "b", "o", "x">>
T_checkbox_group == T_checkbox \o <<"_", "g", "r", "o", "u", "p">>
T_dropdown == <<"d", "r", "o", "p", "d", "o", "w", "n">>
T_date == <<"d", "a", "t", "e">>
T_signature_line == <<"s", "i", "g", "n", "a", "t", "u", "r", "e", "_", "l", "i", "n", "e">>
T_info_block == <<"i", "n", "f", "o", "_", "b", "l", "o", "c", "k">>

ALLOWED_FIELD_TYPES ==
    {T_text_short, T_text_long, T_checkbox, T_checkbox_group, T_dropdown, T_date,
     T_signature_line, T_info_block}

HexDigits ==
    {"0", "1", "2", "3", "4", "5", "6", "7", "8", "9",
     "a", "b", "c", "d", "e", "f", "A", "B", "C", "D", "E", "F"}

\* a stricter is_hex_color that insists on the leading "#"
is_hex_color_hash_required(value) ==
    LET stripped == Strip(value)
    IN  /\ Len(stripped) = 7
        /\ Head(stripped) = "#"
        /\ \A i \in 2..7 : stripped[i] \in HexDigits

\* is_hex_color(value) for a str value
is_hex_color(value) ==
    LET stripped == Strip(value)
        body == IF stripped # <<>> /\ Head(stripped) = "#" THEN Tail(stripped) ELSE stripped
    IN  /\ Len(body) = 6
        /\ \A i \in 1..Len(body) : body[i] \in HexDigits

-----------------------------------------------------------------------------
(* validate_spec.  An error line is a record naming the message template   *)
(* (code), the sections[i].fields[j].options[k] prefix it is about (path), *)
(* the key it names and the id it quotes.  The walk carries the errors     *)
(* list, the seen_ids set and the exception that ended it, if any.         *)

Err(code, path, key, id) == [code |-> code, path |-> path, key |-> key, id |-> id]

AddErr(st, e) == [st EXCEPT !.errors = Append(@, e)]

StartWalk(errs) == [errors |-> errs, seen |-> {}, exc |-> "none"]

\* a walk that stops at the first missing top-level key
MissingTopLevelErrorsFirstOnly(root) ==
    LET missing == SelectSeq(TOP_LEVEL_REQUIRED_KEYS, LAMBDA key : ~Has(root, key))
    IN  IF missing = <<>> THEN <<>>
        ELSE <<Err("missing_top_level", <<>>, missing[1], <<>>)>>

\* for key in TOP_LEVEL_REQUIRED_KEYS: if key not in spec: errors.append(...)
MissingTopLevelErrors(root) ==
    LET missing == SelectSeq(TOP_LEVEL_REQUIRED_KEYS, LAMBDA key : ~Has(root, key))
    IN  [i \in 1..Len(missing) |-> Err("missing_top_level", <<>>, missing[i], <<>>)]

\* the four isinstance checks of the top-level values
TopLevelTypeErrors(metadata, branding, layout, sections) ==
    (IF ~IsDict(metadata) THEN <<Err("metadata_type", <<>>, "metadata", <<>>)>> ELSE <<>>)
    \o (IF ~IsDict(branding) THEN <<Err("branding_type", <<>>, "branding", <<>>)>> ELSE <<>>)
    \o (IF ~IsDict(layout) THEN <<Err("layout_type", <<>>, "document_layout", <<>>)>> ELSE <<>>)
    \o (IF ~IsList(sections) \/ ~Truthy(sections.m)
        THEN <<Err("sections_type", <<>>, "sections", <<>>)>> ELSE <<>>)

\* margin_cm = layout.get("margin_cm", 2.0); not a number or <= 0 is an error
MarginErrors(layout) ==
    IF ~IsDict(layout) THEN <<>>
    ELSE LET margin_cm == Get(layout, "margin_cm", Num(2))
         IN  IF ~IsNumber(margin_cm) \/ NumberValue(margin_cm) <= 0
             THEN <<Err("margin_cm", <<>>, "margin_cm", <<>>)>>
             ELSE <<>>

COLOR_KEYS ==
    <<"primary_color", "secondary_color", "accent_color", "surface_color", "text_color">>

\* color_key not in branding or not is_hex_color(str(branding.get(color_key, "")))
ColorRejected(branding, color_key) ==
    \/ ~Has(branding, color_key)
    \/ ~is_hex_color(PyStr(Get(branding, color_key, Str(<<>>))))

ColorErrors(branding) ==
    LET bad == SelectSeq(COLOR_KEYS, LAMBDA key : ColorRejected(branding, key))
    IN  [i \in 1..Len(bad) |-> Err("color", <<>>, bad[i], <<>>)]

\* not isinstance(branding.get(key, ""), str) or not branding[key]
\* "error": the line is appended; "ok": nothing; "KeyError": branding[key] of an absent key
FontCheck(branding, key) ==
    IF ~IsStr(Get(branding, key, Str(<<>>))) THEN "error"
    ELSE IF ~Has(branding, key) THEN "KeyError"
    ELSE IF ~Truthy(branding.m[key].m) THEN "error"
    ELSE "ok"

RECURSIVE FontChecks(_, _, _)
FontChecks(st, branding, keys) ==
    IF keys = <<>> \/ st.exc # "none" THEN st
    ELSE LET r == FontCheck(branding, Head(keys))
             st1 == CASE r = "error" -> AddErr(st, Err("branding_str", <<>>, Head(keys), <<>>))
                      [] r = "KeyError" -> [st EXCEPT !.exc = "KeyError"]
                      [] OTHER -> st
         IN  FontChecks(st1, branding, Tail(keys))

BrandingChecks(st, branding) ==
    IF ~IsDict(branding) THEN st
    ELSE FontChecks([st EXCEPT !.errors = @ \o ColorErrors(branding)], branding,
                    <<"heading_font", "body_font", "logo_path">>)

\* a walk that never finds an id in seen_ids
IdSeenNever(an_id, seen) == FALSE

\* if an_id in seen_ids
IdSeen(an_id, seen) == an_id \in seen

\* if an_id in seen_ids: errors.append(duplicate) else: seen_ids.add(an_id)
TrackId(st, code, path, an_id) ==
    IF IdSeen(an_id, st.seen) THEN AddErr(st, Err(code, path, "id", an_id))
    ELSE [st EXCEPT !.seen = @ \cup {an_id}]

\* isinstance(v, str) and v.strip()
NonBlankStr(v) == IsStr(v) /\ Truthy(Strip(v.m))

\* one iteration of the loop over the options of a checkbox_group
CheckOption(st, path, option) ==
    IF ~IsDict(option) THEN AddErr(st, Err("option_not_object", path, "", <<>>))
    ELSE IF ~Has(option, "id") \/ ~Has(option, "label")
    THEN AddErr(st, Err("option_missing", path, "", <<>>))
    ELSE IF ~NonBlankStr(option.m.id) THEN AddErr(st, Err("option_id", path, "id", <<>>))
    ELSE LET st1 == TrackId(st, "dup_option_id", path, option.m.id.m)
         IN  IF ~NonBlankStr(option.m.label)
             THEN AddErr(st1, Err("option_label", path, "label", <<>>))
             ELSE st1

RECURSIVE CheckOptions(_, _, _, _)
CheckOptions(st, path, options, i) ==
    IF i > Len(options) THEN st
    ELSE CheckOptions(CheckOption(st, Append(path, i), options[i]), path, options, i + 1)

\* if field_type == "dropdown": ...
DropdownChecks(st, path, field_spec) ==
    LET options == Get(field_spec, "options", Null)
    IN  IF ~IsList(options) \/ ~Truthy(options.m)
        THEN AddErr(st, Err("dropdown_options_list", path, "options", <<>>))
        ELSE IF ~(\A i \in 1..Len(options.m) : NonBlankStr(options.m[i]))
        THEN AddErr(st, Err("dropdown_options_strings", path, "options", <<>>))
        ELSE st

\* if field_type == "checkbox_group": ...
GroupChecks(st, path, field_spec) ==
    LET options == Get(field_spec, "options", Null)
    IN  IF ~IsList(options) \/ ~Truthy(options.m)
        THEN AddErr(st, Err("group_options_list", path, "options", <<>>))
        ELSE CheckOptions(st, path, options.m, 1)

\* field_type not in ALLOWED_FIELD_TYPES: hashing a list or a dict raises TypeError
TypeCheck(st, path, field_type) ==
    IF field_type.k \in {"list", "dict"} THEN [st EXCEPT !.exc = "TypeError"]
    ELSE IF ~(IsStr(field_type) /\ field_type.m \in ALLOWED_FIELD_TYPES)
    THEN AddErr(st, Err("field_type", path, "type", <<>>))
    ELSE st

\* the checks of a field after its id passed: type, required, label, help_text, options
FieldBodyChecks(st, path, field_spec) ==
    LET field_type == field_spec.m.type
        st1 == TypeCheck(st, path, field_type)
        st2 == IF ~IsBool(field_spec.m.required)
               THEN AddErr(st1, Err("field_required", path, "required", <<>>)) ELSE st1
        st3 == IF ~NonBlankStr(field_spec.m.label)
               THEN AddErr(st2, Err("field_label", path, "label", <<>>)) ELSE st2
        st4 == IF ~IsStr(field_spec.m.help_text)
               THEN AddErr(st3, Err("field_help_text", path, "help_text", <<>>)) ELSE st3
        st5 == IF IsStr(field_type) /\ field_type.m = T_dropdown
               THEN DropdownChecks(st4, path, field_spec) ELSE st4
        st6 == IF IsStr(field_type) /\ field_type.m = T_checkbox_group
               THEN GroupChecks(st5, path, field_spec) ELSE st5
    IN  IF st1.exc # "none" THEN st1 ELSE st6

\* what follows a field id that is not a non-empty string: continue (skip the field)
AfterBadFieldId(st, path, field_spec) == st

MissingFieldKeyErrors(path, field_spec) ==
    LET missing == SelectSeq(FIELD_REQUIRED_KEYS, LAMBDA key : ~Has(field_spec, key))
    IN  [i \in 1..Len(missing) |-> Err("field_missing_key", path, missing[i], <<>>)]

\* one iteration of the loop over the fields of a section
CheckField(st, path, field_spec) ==
    IF ~IsDict(field_spec) THEN AddErr(st, Err("field_not_object", path, "", <<>>))
    ELSE IF MissingFieldKeyErrors(path, field_spec) # <<>>
    THEN [st EXCEPT !.errors = @ \o MissingFieldKeyErrors(path, field_spec)]
    ELSE IF ~NonBlankStr(field_spec.m.id)
    THEN AfterBadFieldId(AddErr(st, Err("field_id", path, "id", <<>>)), path, field_spec)
    ELSE FieldBodyChecks(TrackId(st, "dup_field_id", path, field_spec.m.id.m), path, field_spec)

RECURSIVE CheckFields(_, _, _, _)
CheckFields(st, path, fields, i) ==
    IF i > Len(fields) \/ st.exc # "none" THEN st
    ELSE CheckFields(CheckField(st, Append(path, i), fields[i]), path, fields, i + 1)

MissingSectionKeyErrors(path, section) ==
    LET missing == SelectSeq(<<"id", "title", "fields">>, LAMBDA key : ~Has(section, key))
    IN  [i \in 1..Len(missing) |-> Err("section_missing_key", path, missing[i], <<>>)]

\* one iteration of the loop over the sections
CheckSection(st, path, section) ==
    IF ~IsDict(section) THEN AddErr(st, Err("section_not_object", path, "", <<>>))
    ELSE LET e1 == MissingSectionKeyErrors(path, section)
             e2 == IF ~NonBlankStr(Get(section, "id", Null))
                   THEN <<Err("section_id", path, "id", <<>>)>> ELSE <<>>
             e3 == IF ~NonBlankStr(Get(section, "title", Null))
                   THEN <<Err("section_title", path, "title", <<>>)>> ELSE <<>>
             fields == Get(section, "fields", Null)
             st1 == [st EXCEPT !.errors = @ \o e1 \o e2 \o e3]
         IN  IF ~IsList(fields) \/ ~Truthy(fields.m)
             THEN AddErr(st1, Err("section_fields", path, "fields", <<>>))
             ELSE CheckFields(st1, path, fields.m, 1)

RECURSIVE CheckSections(_, _, _)
CheckSections(st, sections, i) ==
    IF i > Len(sections) \/ st.exc # "none" THEN st
    ELSE CheckSections(CheckSection(st, <<i>>, sections[i]), sections, i + 1)

\* validate_spec(spec): [exc, errors]; exc = "none" is the silent return
validate_spec(root) ==
    IF ~IsDict(root)
    THEN [exc |-> "SpecValidationError", errors |-> <<Err("root_not_object", <<>>, "", <<>>)>>]
    ELSE IF MissingTopLevelErrors(root) # <<>>
    THEN [exc |-> "SpecValidationError", errors |-> MissingTopLevelErrors(root)]
    ELSE LET metadata == root.m.metadata
             branding == root.m.branding
             layout == root.m.document_layout
             sections == root.m.sections
             st0 == StartWalk(TopLevelTypeErrors(metadata, branding, layout, sections)
                              \o MarginErrors(layout))
             st1 == BrandingChecks(st0, branding)
             st2 == IF IsList(sections) /\ st1.exc = "none"
                    THEN CheckSections(st1, sections.m, 1) ELSE st1
         IN  IF st2.exc # "none" THEN [exc |-> st2.exc, errors |-> <<>>]
             ELSE IF st2.errors # <<>>
             THEN [exc |-> "SpecValidationError", errors |-> st2.errors]
             ELSE [exc |-> "none", errors |-> <<>>]

-----------------------------------------------------------------------------
(* Markers.                                                                *)

MARKER_PREFIX == <<"[", "[", "F", "I", "E", "L", "D", ":">>
MARKER_SUFFIX == <<"]", "]">>

\* marker_for(field_id) = f"[[FIELD:{field_id}]]"
marker_for(field_id) == MARKER_PREFIX \o field_id \o MARKER_SUFFIX

-----------------------------------------------------------------------------
(* The documents load_spec may return.  A tree is assembled from the parts *)
(* below: each top-level key is absent or holds one of its variants, and   *)
(* the sections of a well-shaped root hold up to MaxFields fields drawn    *)
(* from FieldVariants.  The trees never hold document_layout               *)
(* .section_spacing_pt, and their metadata values are strings.             *)

MaxFields == 2

S_a == <<"a">>
S_b == <<"b">>
S_c == <<"c">>
S_g == <<"g">>
S_L == <<"L">>
S_M == <<"M">>
S_h == <<"h">>
S_blank == <<" ">>
S_bogus == <<"b", "o", "g", "u", "s">>
C_green == <<"#", "1", "7", "3", "7", "2", "c">>
C_nohash == <<"C", "9", "9", "6", "4", "2">>
C_padded == <<" ">> \o C_green \o <<" ">>
C_short == <<"#", "1", "7", "3">>

Field(id, label, type, required, help_text) ==
    Dict([id |-> id, label |-> label, type |-> type, required |-> required,
          help_text |-> help_text])

Option(id, label) == Dict([id |-> id, label |-> label])

FieldVariants == <<
    Field(Str(S_a), Str(S_L), Str(T_text_short), Bool(TRUE), Str(<<>>)),
    Field(Str(S_a), Str(S_L), Str(T_checkbox), Bool(TRUE), Str(S_h)),
    With(Field(Str(S_g), Str(S_L), Str(T_checkbox_group), Bool(TRUE), Str(<<>>)),
         "options", List(<<Option(Str(S_a), Str(S_L)), Option(Str(S_b), Str(S_M))>>)),
    With(Field(Str(S_b), Str(S_L), Str(T_checkbox_group), Bool(FALSE), Str(S_h)),
         "options", List(<<Option(Str(S_a), Str(S_L)), Option(Str(S_a), Str(S_M))>>)),
    Field(Str(S_c), Str(S_L), Str(T_info_block), Bool(FALSE), Str(S_h)),
    Field(Str(<<>>), Str(<<>>), Str(S_bogus), Str(S_a), Num(1)),
    Field(Str(S_a), Str(S_L), List(<<>>), Bool(TRUE), Str(<<>>)),
    With(Field(Str(S_g), Str(S_L), Str(T_checkbox_group), Bool(TRUE), Str(<<>>)),
         "options", List(<<Option(Str(<<>>), Str(<<>>)), Option(Str(S_b), Str(<<>>)),
                           Without(Option(Str(S_a), Str(S_L)), {"label"}), Num(1)>>)),
    With(Field(Str(S_b), Str(S_L), Str(T_text_short), Bool(FALSE), Str(<<>>)),
         "options", Null),
    Field(Str(S_b), Str(marker_for(S_a)), Str(T_checkbox), Bool(FALSE), Str(<<>>)),
    With(Field(Str(marker_for(S_a)), Str(S_L), Str(T_text_short), Bool(FALSE), Str(<<>>)),
         "note", Num(1))
    >>

Section(fields) == Dict([id |-> Str(<<"s">>), title |-> Str(<<"T">>), fields |-> List(fields)])

\* the ways to lay n fields out over sections: the lengths of the sections
RECURSIVE Layouts(_)
Layouts(n) ==
    IF n = 0 THEN {<<>>}
    ELSE UNION {{<<first>> \o rest : rest \in Layouts(n - first)} : first \in 1..n}

RECURSIVE Chunk(_, _)
Chunk(fields, layout) ==
    IF layout = <<>> THEN <<>>
    ELSE <<With(Section(SubSeq(fields, 1, Head(layout))), "description",
                IF Len(layout) = 1 THEN Str(<<"D">>) ELSE Str(<<>>))>>
         \o Chunk(SubSeq(fields, Head(layout) + 1, Len(fields)), Tail(layout))

\* sections built from the field variants picks[1..n], laid out as layout
SectionsOf(picks, layout) == List(Chunk([i \in 1..Len(picks) |-> FieldVariants[picks[i]]], layout))

GoodMetadata ==
    Dict([title |-> Str(<<"F", "o", "r", "m">>), subtitle |-> Str(<<"S">>),
          practice_name |-> Str(<<"P">>), practitioner |-> Str(<<"Q">>),
          phone |-> Str(<<"0">>), email |-> Str(<<"e">>)])

GoodBranding ==
    Dict([primary_color |-> Str(C_green), secondary_color |-> Str(C_nohash),
          accent_color |-> Str(C_green), surface_color |-> Str(C_green),
          text_color |-> Str(C_green), heading_font |-> Str(<<"H">>),
          body_font |-> Str(<<"B">>), logo_path |-> Str(<<"l">>)])

GoodLayout == Dict([margin_cm |-> Num(2)])

MetadataVariants == <<GoodMetadata, Str(S_a), Without(GoodMetadata, {"title"})>>

BrandingVariants == <<
    GoodBranding,
    Null,
    Without(GoodBranding, {"heading_font"}),
    Without(With(GoodBranding, "primary_color", Str(C_short)), {"logo_path"}),
    With(GoodBranding, "primary_color", Str(C_short)),
    With(GoodBranding, "text_color", Num(123456)),
    Without(GoodBranding, {"secondary_color"}),
    With(With(GoodBranding, "heading_font", Str(<<>>)), "body_font", Num(1)),
    With(With(GoodBranding, "accent_color", Str(C_padded)), "surface_color", Str(<<>>))
    >>

LayoutVariants == <<
    GoodLayout,
    Dict(<<>>),
    Dict([margin_cm |-> Num(0)]),
    Dict([margin_cm |-> Str(<<"2">>)]),
    Dict([margin_cm |-> Bool(TRUE)]),
    List(<<>>)
    >>

S_name == <<"n", "a", "m", "e">>
S_symptoms == <<"s", "y", "m", "p", "t", "o", "m", "s">>
S_pain == <<"p", "a", "i", "n">>
S_fatigue == <<"f", "a", "t", "i", "g", "u", "e">>

\* one section: a required text_short "name" and a checkbox_group "symptoms" with the
\* options "pain" and "fatigue"
ScenarioSections ==
    List(<<Section(<<Field(Str(S_name), Str(S_L), Str(T_text_short), Bool(TRUE), Str(<<>>)),
                     With(Field(Str(S_symptoms), Str(S_M), Str(T_checkbox_group), Bool(FALSE),
                                Str(<<>>)),
                          "options", List(<<Option(Str(S_pain), Str(S_L)),
                                            Option(Str(S_fatigue), Str(S_M))>>))>>)>>)

SectionsVariants == <<
    List(<<Section(<<FieldVariants[1]>>)>>),
    Str(S_a),
    List(<<>>),
    List(<<Num(1), Section(<<FieldVariants[1]>>)>>),
    List(<<Without(Section(<<FieldVariants[1]>>), {"id", "title"})>>),
    List(<<Section(<<>>), Without(Section(<<>>), {"fields"})>>),
    List(<<Section(<<FieldVariants[1], FieldVariants[1]>>)>>),
    List(<<With(Section(<<FieldVariants[1]>>), "title", Str(S_blank))>>),
    List(<<Section(<<Without(Field(Str(S_a), Str(<<>>), Str(S_bogus), Bool(TRUE), Str(<<>>)),
                             {"help_text"})>>)>>),
    List(<<Section(<<Field(Str(S_blank), Str(S_L), Str(T_text_short), Bool(TRUE), Str(<<>>))>>)>>),
    List(<<Section(<<Field(Str(S_b), Str(S_blank), Str(T_text_short), Bool(TRUE), Str(<<>>))>>)>>),
    List(<<Section(<<With(Field(Str(S_b), Str(S_L), Str(T_dropdown), Bool(TRUE), Str(<<>>)),
                          "options", List(<<Str(S_L), Str(S_blank)>>))>>)>>),
    List(<<Section(<<Str(S_a), FieldVariants[1]>>)>>),
    List(<<Section(<<Field(Str(S_a), Str(S_L), Str(T_text_short), Bool(TRUE), Str(<<>>)),
                     Field(Str(S_b), Str(S_M), Str(T_text_long), Bool(FALSE), Str(S_h)),
                     With(Field(Str(S_c), Str(S_L), Str(T_dropdown), Bool(TRUE), Str(<<>>)),
                          "options", List(<<Str(S_L), Str(S_M)>>)),
                     Field(Str(S_g), Str(S_L), Str(T_date), Bool(FALSE), Str(<<>>)),
                     Field(Str(S_h), Str(S_L), Str(T_signature_line), Bool(TRUE),
                           Str(<<>>))>>)>>),
    ScenarioSections
    >>

\* a root mapping: metadata, branding and document_layout are absent when their
\* pick is 0, sections when has_sections is FALSE
Root(m, b, l, has_sections, sections) ==
    LET all == [metadata |-> IF m = 0 THEN Null ELSE MetadataVariants[m],
                branding |-> IF b = 0 THEN Null ELSE BrandingVariants[b],
                document_layout |-> IF l = 0 THEN Null ELSE LayoutVariants[l],
                sections |-> sections]
        absent == (IF m = 0 THEN {"metadata"} ELSE {})
                  \cup (IF b = 0 THEN {"branding"} ELSE {})
                  \cup (IF l = 0 THEN {"document_layout"} ELSE {})
                  \cup (IF has_sections THEN {} ELSE {"sections"})
    IN  Without(Dict(all), absent)

-----------------------------------------------------------------------------
(* build_base_document: the paragraphs of the base document, in document   *)
(* order, and the placeholder list.  The walk carries the paragraph texts, *)
(* the placeholders and the exception that ended it, if any.               *)

PlaceholderSpec(marker, field_type, field_id, label, required, options) ==
    [marker |-> marker, field_type |-> field_type, field_id |-> field_id,
     label |-> label, required |-> required, options |-> options]

RECURSIVE Repeat(_, _)
Repeat(c, n) == IF n = 0 THEN <<>> ELSE <<c>> \o Repeat(c, n - 1)

NOTE_TEXT ==
    <<"D", "i", "t", " ", "f", "o", "r", "m", "u", "l", "i", "e", "r", " ", "i", "s", " ", "v", "e", "r", "t", "r", "o", "u", "w", "e", "l", "i", "j", "k", " ", "e", "n", " ", "b", "e", "d", "o", "e", "l", "d", " ", "v", "o", "o", "r", " ", "i", "n", "t", "a", "k", "e", " ", "e", "n", " ", "v", "e", "i", "l", "i", "g", "e", " ", "b", "e", "h", "a", "n", "d", "e", "l", "a", "a", "n", "p", "a", "s", "s", "i", "n", "g", ".">>

DIVIDER_TEXT == Repeat("_", 72)

TOELICHTING == <<"T", "o", "e", "l", "i", "c", "h", "t", "i", "n", "g">>

\* hex_to_rgb / clean_hex call is_hex_color(value), which calls value.strip():
\* AttributeError when the colour is not a str
ColorUsable(branding, key) == IsStr(branding.m[key])

AddParagraph(b, text) == [b EXCEPT !.paragraphs = Append(@, text)]

Raise(b, e) == IF b.exc = "none" THEN [b EXCEPT !.exc = e] ELSE b

\* configure_document_styles and add_document_header
BuildHeader(root) ==
    LET metadata == root.m.metadata
        branding == root.m.branding
        b0 == [paragraphs |-> <<>>, placeholders |-> <<>>, exc |-> "none"]
        keys == {"title", "subtitle", "practice_name", "practitioner", "phone", "email"}
    IN  IF \E key \in {"primary_color", "secondary_color", "accent_color", "text_color"} :
               ~ColorUsable(branding, key)
        THEN Raise(b0, "AttributeError")
        ELSE IF \E key \in keys : ~Has(metadata, key)
        THEN Raise(b0, "KeyError")
        ELSE [b0 EXCEPT !.paragraphs =
                 << <<>>,
                    metadata.m.title.m,
                    metadata.m.subtitle.m,
                    metadata.m.practice_name.m \o <<" ", "|", " ">>
                        \o metadata.m.practitioner.m \o <<" ", "|", " ">>
                        \o metadata.m.phone.m \o <<" ", "|", " ">> \o metadata.m.email.m,
                    NOTE_TEXT,
                    DIVIDER_TEXT,
                    <<>> >>]

\* add_section_description_row and add_label_row shade the cell with surface_color
ShadedRow(b, branding, text) ==
    IF ~ColorUsable(branding, "surface_color") THEN Raise(b, "AttributeError")
    ELSE AddParagraph(b, text)

\* add_label_row: label, " *" when required, "\n" + help_text when help_text
LabelRowText(label, required, help_text) ==
    label \o (IF required THEN <<" ", "*">> ELSE <<>>)
          \o (IF Truthy(help_text) THEN <<"\n">> \o help_text ELSE <<>>)

\* the loop over the options of a checkbox_group
RECURSIVE PlanOptions(_, _, _, _)
PlanOptions(b, options, required, i) ==
    IF i > Len(options) THEN b
    ELSE LET option == options[i]
             marker == marker_for(option.m.id.m)
             b1 == AddParagraph(b, marker \o <<" ">> \o option.m.label.m)
             b2 == [b1 EXCEPT !.placeholders =
                       Append(@, PlaceholderSpec(marker, T_checkbox, option.m.id.m,
                                                 option.m.label.m, required, <<>>))]
         IN  PlanOptions(b2, options, required, i + 1)

\* for option in field_spec.get("options", []): TypeError unless the value iterates
OptionsIterable(field_spec) ==
    Get(field_spec, "options", List(<<>>)).k \in {"list", "str"}

\* [str(option) for option in field_spec.get("options", [])]
OptionStrings(field_spec) ==
    LET options == Get(field_spec, "options", List(<<>>))
    IN  IF options.k = "list" THEN [i \in 1..Len(options.m) |-> PyStr(options.m[i])]
        ELSE [i \in 1..Len(options.m) |-> <<options.m[i]>>]

\* the placeholders a field of any type but info_block and checkbox_group gets
FieldPlaceholders(field_type, field_id, label, required, options) ==
    <<PlaceholderSpec(marker_for(field_id), field_type, field_id, label, required, options)>>

\* one iteration of the loop over the fields of a section
PlanField(b, branding, field_spec) ==
    LET field_type == field_spec.m.type.m
        field_id == field_spec.m.id.m
        label == field_spec.m.label.m
        required == field_spec.m.required.m
        help_text == field_spec.m.help_text.m
        marker == marker_for(field_id)
    IN  IF field_type = T_info_block
        THEN ShadedRow(b, branding, LabelRowText(label, FALSE, help_text))
        ELSE IF field_type = T_checkbox_group
        THEN LET b1 == ShadedRow(b, branding, LabelRowText(label, required, help_text))
             IN  IF b1.exc # "none" THEN b1
                 ELSE PlanOptions(b1, field_spec.m.options.m, required, 1)
        ELSE IF field_type = T_checkbox
        THEN LET b1 == AddParagraph(b, marker \o <<" ">> \o label
                                       \o (IF required THEN <<" ", "*">> ELSE <<>>))
                 b2 == IF Truthy(help_text)
                       THEN ShadedRow(b1, branding, LabelRowText(TOELICHTING, FALSE, help_text))
                       ELSE b1
             IN  IF b2.exc # "none" THEN b2
                 ELSE [b2 EXCEPT !.placeholders =
                          @ \o FieldPlaceholders(field_type, field_id, label, required, <<>>)]
        ELSE LET b1 == ShadedRow(b, branding, LabelRowText(label, required, help_text))
                 b2 == AddParagraph(b1, marker)
             IN  IF b1.exc # "none" THEN b1
                 ELSE IF ~OptionsIterable(field_spec) THEN Raise(b2, "TypeError")
                 ELSE [b2 EXCEPT !.placeholders =
                          @ \o FieldPlaceholders(field_type, field_id, label, required,
                                                 OptionStrings(field_spec))]

RECURSIVE PlanFields(_, _, _, _)
PlanFields(b, branding, fields, i) ==
    IF i > Len(fields) \/ b.exc # "none" THEN b
    ELSE PlanFields(PlanField(b, branding, fields[i]), branding, fields, i + 1)

\* one iteration of the loop over the sections
PlanSection(b, branding, section) ==
    LET b1 == AddParagraph(b, section.m.title.m)
        description == PyStr(Get(section, "description", Str(<<>>)))
        b2 == IF Truthy(description) THEN ShadedRow(b1, branding, description) ELSE b1
        b3 == PlanFields(b2, branding, section.m.fields.m, 1)
    IN  IF b3.exc # "none" THEN b3 ELSE AddParagraph(b3, <<>>)

RECURSIVE PlanSections(_, _, _, _)
PlanSections(b, branding, sections, i) ==
    IF i > Len(sections) \/ b.exc # "none" THEN b
    ELSE PlanSections(PlanSection(b, branding, sections[i]), branding, sections, i + 1)

\* build_base_document(spec, logo_path, output_path) of a validated spec:
\* [exc, paragraphs, placeholders]
build_base_document(root) ==
    PlanSections(BuildHeader(root), root.m.branding, root.m.sections.m, 1)

-----------------------------------------------------------------------------
(* The interactive path: the document opened in Word is one run of         *)
(* characters, every paragraph followed by its paragraph mark.             *)

RECURSIVE Flatten(_)
Flatten(paragraphs) ==
    IF paragraphs = <<>> THEN <<>> ELSE Head(paragraphs) \o <<"\r">> \o Flatten(Tail(paragraphs))

\* the extent, in characters, of an inserted content control is Word's choice
MaxControlLen == 12
ControlLens == {1, MaxControlLen}
CONTROL == "CTRL"

SIGNATURE_TEXT == Repeat("_", 30) \o <<" ", "(", "H", "a", "n", "d", "t", "e", "k", "e", "n", "i", "n", "g", ")">>

CONTROL_TYPES == {T_text_short, T_text_long, T_checkbox, T_dropdown, T_date}

Max(a, b) == IF a >= b THEN a ELSE b

\* number of positions at which marker occurs in text
Occurrences(text, marker) ==
    Cardinality({s \in 0..(Len(text) - Len(marker)) :
                    SubSeq(text, s + 1, s + Len(marker)) = marker})

\* Find.Execute on Range(cursor, End), Forward, wdFindStop: the start of the first
\* occurrence of marker at or after cursor, -1 when there is none
FindFrom(text, marker, cursor) ==
    LET found == {s \in cursor..(Len(text) - Len(marker)) :
                     SubSeq(text, s + 1, s + Len(marker)) = marker}
    IN  IF found = {} THEN -1 ELSE CHOOSE s \in found : \A t \in found : s <= t

\* next_cursor = max(found_range.End, cursor + 1), taken before the replacement
NextCursor(found_end, cursor) == Max(found_end, cursor + 1)

\* replace_single_marker: the text after the marker at [start, start + Len(marker))
\* was replaced; control_len is the extent of the inserted control
replace_single_marker(text, start, marker, field_type, control_len) ==
    LET before == SubSeq(text, 1, start)
        after == SubSeq(text, start + Len(marker) + 1, Len(text))
    IN  IF field_type = T_signature_line THEN before \o SIGNATURE_TEXT \o after
        ELSE IF field_type \in CONTROL_TYPES THEN before \o Repeat(CONTROL, control_len) \o after
        ELSE before \o after

\* the while loop of replace_marker_with_control: [text, count, exc]
RECURSIVE ReplaceLoop(_, _, _, _, _)
ReplaceLoop(text, placeholder, control_len, cursor, replaced_count) ==
    LET start == FindFrom(text, placeholder.marker, cursor)
        replaced == replace_single_marker(text, start, placeholder.marker,
                                          placeholder.field_type, control_len)
    IN  IF cursor > Len(text) \/ start = -1
        THEN [text |-> text, count |-> replaced_count, exc |-> "none"]
        ELSE IF placeholder.field_type \notin CONTROL_TYPES \cup {T_signature_line}
        THEN [text |-> replaced, count |-> replaced_count, exc |-> "RuntimeError"]
        ELSE ReplaceLoop(replaced, placeholder, control_len,
                         NextCursor(start + Len(placeholder.marker), cursor),
                         replaced_count + 1)

replace_marker_with_control(text, placeholder, control_len) ==
    ReplaceLoop(text, placeholder, control_len, 0, 0)

\* a loop that records only the markers it did not find
CountErrorOnlyMissing(count, placeholder) ==
    IF count = 0 THEN <<[code |-> "not_found", count |-> 0, marker |-> placeholder.marker]>>
    ELSE <<>>

\* the error line apply_com_controls appends for a count, <<>> for count 1
CountError(count, placeholder) ==
    IF count = 0 THEN <<[code |-> "not_found", count |-> 0, marker |-> placeholder.marker]>>
    ELSE IF count > 1
    THEN <<[code |-> "multiple", count |-> count, marker |-> placeholder.marker]>>
    ELSE <<>>

\* a resolution that never raises on accumulated errors
ResolutionNeverFailed(errs) == FALSE

\* if replacement_errors: raise RuntimeError(...)
ResolutionFailed(errs) == errs # <<>>

-----------------------------------------------------------------------------
(* The fallback path.                                                      *)

\* a fallback that shows the short blank for every field type
FallbackGlyphBlank(field_type) == Repeat("_", 28)

\* the glyph apply_plain_fallback maps a field_type to
FallbackGlyph(field_type) ==
    CASE field_type = T_checkbox -> <<"[", " ", "]">>
      [] field_type = T_date -> <<"_", "_", "-", "_", "_", "-", "_", "_", "_", "_">>
      [] field_type = T_dropdown -> <<"[", "K", "i", "e", "s", " ", "e", "e", "n", " ", "o", "p", "t", "i", "e", "]">>
      [] field_type = T_signature_line -> SIGNATURE_TEXT
      [] field_type = T_text_long -> Repeat("_", 44)
      [] OTHER -> Repeat("_", 28)

\* replacement_map as the list of its items: a key keeps the place of its first
\* assignment and the value of its last
RECURSIVE ReplacementMap(_, _)
ReplacementMap(phs, map) ==
    IF phs = <<>> THEN map
    ELSE LET marker == Head(phs).marker
             glyph == FallbackGlyph(Head(phs).field_type)
             at == {i \in 1..Len(map) : map[i][1] = marker}
         IN  ReplacementMap(Tail(phs),
                 IF at = {} THEN Append(map, <<marker, glyph>>)
                 ELSE [i \in 1..Len(map) |-> IF i \in at THEN <<marker, glyph>> ELSE map[i]])

\* str.replace(old, new): every non-overlapping occurrence, left to right
RECURSIVE StrReplace(_, _, _)
StrReplace(text, old, new) ==
    LET start == FindFrom(text, old, 0)
    IN  IF start = -1 THEN text
        ELSE SubSeq(text, 1, start) \o new
             \o StrReplace(SubSeq(text, start + Len(old) + 1, Len(text)), old, new)

\* for marker, replacement in replacement_map.items(): if marker in text: replace
RECURSIVE SubstituteAll(_, _)
SubstituteAll(text, map) ==
    IF map = <<>> THEN text
    ELSE SubstituteAll(StrReplace(text, Head(map)[1], Head(map)[2]), Tail(map))

\* apply_plain_fallback: the paragraphs of the base document after the pass
apply_plain_fallback(paragraphs, phs) ==
    [i \in 1..Len(paragraphs) |-> SubstituteAll(paragraphs[i], ReplacementMap(phs, <<>>))]

-----------------------------------------------------------------------------
(* main and run_generation.                                                *)

NoDoc == [exists |-> FALSE, paragraphs |-> <<>>]
NoWordDoc == [state |-> "none", text |-> <<>>]
NoFile == [written |-> FALSE, via |-> "none", text |-> <<>>]

\* the trees load_spec may return
InputTree(tree) ==
    \/ tree \in {List(<<>>), Null}
    \/ \E m \in 0..Len(MetadataVariants), b \in 0..Len(BrandingVariants),
          l \in 0..Len(LayoutVariants), s \in 0..Len(SectionsVariants) :
          tree = Root(m, b, l, s # 0, IF s = 0 THEN Null ELSE SectionsVariants[s])
    \/ \E n \in 1..MaxFields :
          \E picks \in [1..n -> 1..Len(FieldVariants)], layout \in Layouts(n) :
             tree = Root(1, 1, 1, TRUE, SectionsOf(picks, layout))

Init ==
    /\ pc = "start"
    /\ file_state \in {"ok", "missing", "invalid_json"}
    /\ IF file_state = "ok" THEN InputTree(spec) ELSE spec = Null
    /\ validate_only \in BOOLEAN
    /\ no_com \in BOOLEAN
    /\ exc = "none"
    /\ errors = <<>>
    /\ placeholders = <<>>
    /\ base_doc = NoDoc
    /\ word_app = "none"
    /\ word_doc = NoWordDoc
    /\ ph_index = 1
    /\ counts = <<>>
    /\ replacement_errors = <<>>
    /\ out_file = NoFile
    /\ exit_code = -1

\* load_spec
LoadSpec ==
    /\ pc = "start"
    /\ exc' = CASE file_state = "missing" -> "FileNotFoundError"
                [] file_state = "invalid_json" -> "SpecValidationError"
                [] OTHER -> "none"
    /\ pc' = IF file_state = "ok" THEN "loaded" ELSE "failed"
    /\ UNCHANGED <<file_state, spec, validate_only, no_com, errors, placeholders, base_doc,
                   word_app, word_doc, ph_index, counts, replacement_errors, out_file,
                   exit_code>>

\* validate_spec(spec)
Validate ==
    /\ pc = "loaded"
    /\ exc' = validate_spec(spec).exc
    /\ errors' = validate_spec(spec).errors
    /\ pc' = IF validate_spec(spec).exc = "none" THEN "validated" ELSE "failed"
    /\ UNCHANGED <<file_state, spec, validate_only, no_com, placeholders, base_doc, word_app,
                   word_doc, ph_index, counts, replacement_errors, out_file, exit_code>>

\* resolve_logo_path: the logo file is found or FileNotFoundError
ResolveLogo ==
    /\ pc = "validated"
    /\ \E found \in BOOLEAN :
          /\ exc' = IF found THEN "none" ELSE "FileNotFoundError"
          /\ pc' = IF found THEN "logo_resolved" ELSE "failed"
    /\ UNCHANGED <<file_state, spec, validate_only, no_com, errors, placeholders, base_doc,
                   word_app, word_doc, ph_index, counts, replacement_errors, out_file,
                   exit_code>>

\* if validate_only: print; return
ValidateOnlyReturn ==
    /\ pc = "logo_resolved"
    /\ validate_only
    /\ pc' = "returned"
    /\ UNCHANGED <<file_state, spec, validate_only, no_com, exc, errors, placeholders,
                   base_doc, word_app, word_doc, ph_index, counts, replacement_errors,
                   out_file, exit_code>>

\* placeholders = build_base_document(spec, logo_path, base_doc_path)
BuildBase ==
    /\ pc = "logo_resolved"
    /\ ~validate_only
    /\ LET built == build_base_document(spec)
       IN  IF built.exc = "none"
           THEN /\ base_doc' = [exists |-> TRUE, paragraphs |-> built.paragraphs]
                /\ placeholders' = built.placeholders
                /\ pc' = "built"
                /\ exc' = exc
           ELSE /\ base_doc' = NoDoc
                /\ placeholders' = placeholders
                /\ pc' = "failed"
                /\ exc' = built.exc
    /\ UNCHANGED <<file_state, spec, validate_only, no_com, errors, word_app, word_doc,
                   ph_index, counts, replacement_errors, out_file, exit_code>>

\* if no_com: apply_plain_fallback(base_doc_path, placeholders)
PlainFallback ==
    /\ pc = "built"
    /\ no_com
    /\ base_doc' = [base_doc EXCEPT
                       !.paragraphs = apply_plain_fallback(base_doc.paragraphs, placeholders)]
    /\ pc' = "fallback_applied"
    /\ UNCHANGED <<file_state, spec, validate_only, no_com, exc, errors, placeholders,
                   word_app, word_doc, ph_index, counts, replacement_errors, out_file,
                   exit_code>>

\* shutil.copyfile(base_doc_path, output_path); return (the temp dir is released)
CopyOutput ==
    /\ pc = "fallback_applied"
    /\ out_file' = [written |-> TRUE, via |-> "copyfile", text |-> Flatten(base_doc.paragraphs)]
    /\ base_doc' = NoDoc
    /\ pc' = "returned"
    /\ UNCHANGED <<file_state, spec, validate_only, no_com, exc, errors, placeholders,
                   word_app, word_doc, ph_index, counts, replacement_errors, exit_code>>

\* apply_com_controls: import win32com.client, RuntimeError when it is unavailable
ComImport ==
    /\ pc = "built"
    /\ ~no_com
    /\ \E available \in BOOLEAN :
          IF available
          THEN /\ pc' = "com_imported"
               /\ UNCHANGED <<exc, base_doc>>
          ELSE /\ pc' = "failed"
               /\ exc' = "RuntimeError"
               /\ base_doc' = NoDoc
    /\ UNCHANGED <<file_state, spec, validate_only, no_com, errors, placeholders, word_app,
                   word_doc, ph_index, counts, replacement_errors, out_file, exit_code>>

\* word_app = win32com.client.DispatchEx("Word.Application")
ComDispatch ==
    /\ pc = "com_imported"
    /\ \E started \in BOOLEAN :
          IF started
          THEN /\ word_app' = "running"
               /\ pc' = "com_dispatched"
               /\ exc' = exc
          ELSE /\ word_app' = word_app
               /\ pc' = "com_finally"
               /\ exc' = "com_error"
    /\ UNCHANGED <<file_state, spec, validate_only, no_com, errors, placeholders, base_doc,
                   word_doc, ph_index, counts, replacement_errors, out_file, exit_code>>

\* word_doc = word_app.Documents.Open(base_doc_path)
ComOpen ==
    /\ pc = "com_dispatched"
    /\ \E opened \in BOOLEAN :
          IF opened
          THEN /\ word_doc' = [state |-> "open", text |-> Flatten(base_doc.paragraphs)]
               /\ pc' = "com_loop"
               /\ exc' = exc
          ELSE /\ word_doc' = word_doc
               /\ pc' = "com_finally"
               /\ exc' = "com_error"
    /\ UNCHANGED <<file_state, spec, validate_only, no_com, errors, placeholders, base_doc,
                   word_app, ph_index, counts, replacement_errors, out_file, exit_code>>

\* one iteration of: for placeholder in placeholders
ComReplace ==
    /\ pc = "com_loop"
    /\ ph_index <= Len(placeholders)
    /\ \E control_len \in ControlLens, raised \in BOOLEAN :
          LET placeholder == placeholders[ph_index]
              r == replace_marker_with_control(word_doc.text, placeholder, control_len)
          IN  IF raised \/ r.exc # "none"
              THEN /\ exc' = IF raised THEN "com_error" ELSE r.exc
                   /\ pc' = "com_finally"
                   /\ word_doc' = IF raised THEN word_doc ELSE [word_doc EXCEPT !.text = r.text]
                   /\ UNCHANGED <<ph_index, counts, replacement_errors>>
              ELSE /\ word_doc' = [word_doc EXCEPT !.text = r.text]
                   /\ counts' = Append(counts, r.count)
                   /\ replacement_errors' = replacement_errors \o CountError(r.count, placeholder)
                   /\ ph_index' = ph_index + 1
                   /\ UNCHANGED <<exc, pc>>
    /\ UNCHANGED <<file_state, spec, validate_only, no_com, errors, placeholders, base_doc,
                   word_app, out_file, exit_code>>

\* if replacement_errors: raise RuntimeError
ComRaiseErrors ==
    /\ pc = "com_loop"
    /\ ph_index > Len(placeholders)
    /\ ResolutionFailed(replacement_errors)
    /\ exc' = "RuntimeError"
    /\ pc' = "com_finally"
    /\ UNCHANGED <<file_state, spec, validate_only, no_com, errors, placeholders, base_doc,
                   word_app, word_doc, ph_index, counts, replacement_errors, out_file,
                   exit_code>>

\* word_doc.SaveAs2(output_path)
ComSave ==
    /\ pc = "com_loop"
    /\ ph_index > Len(placeholders)
    /\ ~ResolutionFailed(replacement_errors)
    /\ \E saved \in BOOLEAN :
          IF saved
          THEN /\ out_file' = [written |-> TRUE, via |-> "SaveAs2", text |-> word_doc.text]
               /\ exc' = exc
          ELSE /\ out_file' = out_file
               /\ exc' = "com_error"
    /\ pc' = "com_finally"
    /\ UNCHANGED <<file_state, spec, validate_only, no_com, errors, placeholders, base_doc,
                   word_app, word_doc, ph_index, counts, replacement_errors, exit_code>>

\* a finally block that lets the exception of Close out
ComCloseRaising ==
    /\ pc = "com_finally"
    /\ IF word_doc.state = "open"
       THEN \E closed \in BOOLEAN :
               /\ word_doc' = [word_doc EXCEPT
                                  !.state = IF closed THEN "closed" ELSE "close_raised"]
               /\ pc' = IF closed THEN "com_quit" ELSE "failed"
               /\ exc' = IF closed THEN exc ELSE "com_error"
       ELSE /\ word_doc' = word_doc
            /\ pc' = "com_quit"
            /\ exc' = exc
    /\ UNCHANGED <<file_state, spec, validate_only, no_com, errors, placeholders,
                   base_doc, word_app, ph_index, counts, replacement_errors, out_file,
                   exit_code>>

\* finally: if word_doc is not None: try: word_doc.Close(False) except Exception: pass
ComClose ==
    /\ pc = "com_finally"
    /\ IF word_doc.state = "open"
       THEN \E closed \in BOOLEAN :
               word_doc' = [word_doc EXCEPT !.state = IF closed THEN "closed" ELSE "close_raised"]
       ELSE word_doc' = word_doc
    /\ pc' = "com_quit"
    /\ UNCHANGED <<file_state, spec, validate_only, no_com, exc, errors, placeholders,
                   base_doc, word_app, ph_index, counts, replacement_errors, out_file,
                   exit_code>>

\* finally: if word_app is not None: try: word_app.Quit() except Exception: pass
ComQuit ==
    /\ pc = "com_quit"
    /\ IF word_app = "running"
       THEN \E quit \in BOOLEAN : word_app' = IF quit THEN "quit" ELSE "quit_raised"
       ELSE word_app' = word_app
    /\ pc' = IF exc = "none" THEN "returned" ELSE "failed"
    /\ base_doc' = NoDoc
    /\ UNCHANGED <<file_state, spec, validate_only, no_com, exc, errors, placeholders,
                   word_doc, ph_index, counts, replacement_errors, out_file, exit_code>>

\* a main whose except clauses return 0 as well
MainReturnZero ==
    /\ pc \in {"returned", "failed"}
    /\ exit_code' = 0
    /\ pc' = "done"
    /\ UNCHANGED <<file_state, spec, validate_only, no_com, exc, errors, placeholders,
                   base_doc, word_app, word_doc, ph_index, counts, replacement_errors,
                   out_file>>

\* main: return 0, or 1 from either except clause
MainReturn ==
    /\ pc \in {"returned", "failed"}
    /\ exit_code' = IF pc = "returned" THEN 0 ELSE 1
    /\ pc' = "done"
    /\ UNCHANGED <<file_state, spec, validate_only, no_com, exc, errors, placeholders,
                   base_doc, word_app, word_doc, ph_index, counts, replacement_errors,
                   out_file>>

Next ==
    \/ LoadSpec
    \/ Validate
    \/ ResolveLogo
    \/ ValidateOnlyReturn
    \/ BuildBase
    \/ PlainFallback
    \/ CopyOutput
    \/ ComImport
    \/ ComDispatch
    \/ ComOpen
    \/ ComReplace
    \/ ComRaiseErrors
    \/ ComSave
    \/ ComClose
    \/ ComQuit
    \/ MainReturn

Spec == Init /\ [][Next]_vars

-----------------------------------------------------------------------------
(* apply_com_controls on its own: any base document and placeholder list.  *)
(* The document is one paragraph made of up to MaxPieces pieces; the       *)
(* placeholders are one or two of ComPlaceholders, in any order.           *)

MaxPieces == 3

S_y == marker_for(S_a)

Pieces == <<marker_for(S_a), marker_for(S_b), marker_for(S_y), <<"x">> >>

ComPlaceholders == <<
    PlaceholderSpec(marker_for(S_a), T_checkbox, S_a, S_L, TRUE, <<>>),
    PlaceholderSpec(marker_for(S_b), T_signature_line, S_b, S_L, FALSE, <<>>),
    PlaceholderSpec(marker_for(S_y), T_text_short, S_y, S_L, FALSE, <<>>),
    PlaceholderSpec(marker_for(S_c), T_info_block, S_c, S_L, FALSE, <<>>)
    >>

RECURSIVE Concat(_)
Concat(seqs) == IF seqs = <<>> THEN <<>> ELSE Head(seqs) \o Concat(Tail(seqs))

InitCom ==
    /\ pc = "com_imported"
    /\ file_state = "ok"
    /\ spec = Null
    /\ validate_only = FALSE
    /\ no_com = FALSE
    /\ exc = "none"
    /\ errors = <<>>
    /\ \E i \in 1..Len(ComPlaceholders), j \in 0..Len(ComPlaceholders) :
          /\ i # j
          /\ placeholders = <<ComPlaceholders[i]>>
                            \o (IF j = 0 THEN <<>> ELSE <<ComPlaceholders[j]>>)
    /\ \E n \in 0..MaxPieces :
          \E picks \in [1..n -> 1..Len(Pieces)] :
             base_doc = [exists |-> TRUE,
                         paragraphs |-> <<Concat([i \in 1..n |-> Pieces[picks[i]]])>>]
    /\ word_app = "none"
    /\ word_doc = NoWordDoc
    /\ ph_index = 1
    /\ counts = <<>>
    /\ replacement_errors = <<>>
    /\ out_file = NoFile
    /\ exit_code = -1

NextCom ==
    \/ ComDispatch
    \/ ComOpen
    \/ ComReplace
    \/ ComRaiseErrors
    \/ ComSave
    \/ ComClose
    \/ ComQuit

SpecCom == InitCom /\ [][NextCom]_vars

-----------------------------------------------------------------------------
(* apply_plain_fallback on its own: any base document and placeholder list, *)
(* and a second call on the result of the first.  The document is one      *)
(* paragraph made of up to MaxPieces pieces; the placeholders are one or   *)
(* two of FallbackPlaceholders, in any order.  S_box is an id that spells  *)
(* the glyph of a checkbox.                                                *)

S_box == <<"[", " ", "]">>

FallbackPieces == <<marker_for(S_b), MARKER_PREFIX, MARKER_SUFFIX, <<"x">>, marker_for(S_a)>>

FallbackPlaceholders == <<
    PlaceholderSpec(marker_for(S_box), T_text_short, S_box, S_L, FALSE, <<>>),
    PlaceholderSpec(marker_for(S_b), T_checkbox, S_b, S_L, TRUE, <<>>),
    PlaceholderSpec(marker_for(S_a), T_date, S_a, S_M, FALSE, <<>>)
    >>

InitFallback ==
    /\ pc = "built"
    /\ file_state = "ok"
    /\ spec = Null
    /\ validate_only = FALSE
    /\ no_com = TRUE
    /\ exc = "none"
    /\ errors = <<>>
    /\ \E i \in 1..Len(FallbackPlaceholders), j \in 0..Len(FallbackPlaceholders) :
          /\ i # j
          /\ placeholders = <<FallbackPlaceholders[i]>>
                            \o (IF j = 0 THEN <<>> ELSE <<FallbackPlaceholders[j]>>)
    /\ \E n \in 0..MaxPieces :
          \E picks \in [1..n -> 1..Len(FallbackPieces)] :
             base_doc = [exists |-> TRUE,
                         paragraphs |-> <<Concat([i \in 1..n |-> FallbackPieces[picks[i]]])>>]
    /\ word_app = "none"
    /\ word_doc = NoWordDoc
    /\ ph_index = 1
    /\ counts = <<>>
    /\ replacement_errors = <<>>
    /\ out_file = NoFile
    /\ exit_code = -1

\* apply_plain_fallback called once more on the document it saved
PlainFallbackAgain ==
    /\ pc = "fallback_applied"
    /\ base_doc' = [base_doc EXCEPT
                       !.paragraphs = apply_plain_fallback(base_doc.paragraphs, placeholders)]
    /\ pc' = "fallback_reapplied"
    /\ UNCHANGED <<file_state, spec, validate_only, no_com, exc, errors, placeholders,
                   word_app, word_doc, ph_index, counts, replacement_errors, out_file,
                   exit_code>>

NextFallback ==
    \/ PlainFallback
    \/ PlainFallbackAgain

SpecFallback == InitFallback /\ [][NextFallback]_vars

-----------------------------------------------------------------------------
(* Properties of validate_spec.                                            *)

\* validate_spec ran on the loaded tree and raised SpecValidationError
ValidationRaised == file_state = "ok" /\ exc = "SpecValidationError"

\* validate_spec ran on the loaded tree
Validated == file_state = "ok" /\ pc \notin {"start", "loaded"}

HasAllTopLevelKeys(root) ==
    IsDict(root) /\ \A i \in 1..Len(TOP_LEVEL_REQUIRED_KEYS) : Has(root, TOP_LEVEL_REQUIRED_KEYS[i])

\* number of error lines with this code and path
ErrorCount(code, path) ==
    Cardinality({n \in 1..Len(errors) : errors[n].code = code /\ errors[n].path = path})

\* the sections of a tree that are objects holding a list of fields
SectionIndexes(root) ==
    IF HasAllTopLevelKeys(root) /\ IsList(root.m.sections)
    THEN {i \in 1..Len(root.m.sections.m) :
             /\ IsDict(root.m.sections.m[i])
             /\ IsList(Get(root.m.sections.m[i], "fields", Null))}
    ELSE {}

FieldsAt(root, i) == root.m.sections.m[i].m.fields.m

HasFiveKeys(f) ==
    IsDict(f) /\ \A n \in 1..Len(FIELD_REQUIRED_KEYS) : Has(f, FIELD_REQUIRED_KEYS[n])

\* the paths <<i, j>> of the fields that are objects with the five required keys
FieldPaths(root) ==
    {p \in UNION {{<<i, j>> : j \in 1..Len(FieldsAt(root, i))} : i \in SectionIndexes(root)} :
        HasFiveKeys(FieldsAt(root, p[1])[p[2]])}

FieldAt(root, p) == FieldsAt(root, p[1])[p[2]]

IsGroup(f) == IsStr(f.m.type) /\ f.m.type.m = T_checkbox_group

\* the paths <<i, j, k>> of the checkbox_group options that are objects with id and label
OptionPaths(root) ==
    UNION {{Append(p, n) : n \in {n \in 1..Len(FieldAt(root, p).m.options.m) :
                                    LET o == FieldAt(root, p).m.options.m[n]
                                    IN  IsDict(o) /\ Has(o, "id") /\ Has(o, "label")}} :
           p \in {p \in FieldPaths(root) :
                     /\ IsGroup(FieldAt(root, p))
                     /\ IsList(Get(FieldAt(root, p), "options", Null))}}

OptionAt(root, p) == FieldAt(root, <<p[1], p[2]>>).m.options.m[p[3]]

EmptyText(v) == ~IsStr(v) \/ v.m = <<>>

\* C1: validate_spec ends in one of two ways for every tree: it returns, or it raises
\* SpecValidationError; no other exception leaves it.
C1_OnlySpecValidationError ==
    [][Validate => exc' \in {"none", "SpecValidationError"}]_vars

\* C2: with the four top-level keys present, the SpecValidationError holds one error
\* line for every violation: a field that has its five keys gets a line for an empty
\* id, a line for an invalid type, a line for a non-boolean required, a line for an
\* empty label and a line for a help_text that is no string, whichever of these it
\* also has; an option gets a line for an empty id and a line for an empty label.
C2_EveryViolationReported ==
    (ValidationRaised /\ HasAllTopLevelKeys(spec)) =>
        /\ \A p \in FieldPaths(spec) :
              LET f == FieldAt(spec, p)
              IN  /\ EmptyText(f.m.id) => ErrorCount("field_id", p) = 1
                  /\ ~(IsStr(f.m.type) /\ f.m.type.m \in ALLOWED_FIELD_TYPES)
                        => ErrorCount("field_type", p) = 1
                  /\ ~IsBool(f.m.required) => ErrorCount("field_required", p) = 1
                  /\ EmptyText(f.m.label) => ErrorCount("field_label", p) = 1
                  /\ ~IsStr(f.m.help_text) => ErrorCount("field_help_text", p) = 1
        /\ \A p \in OptionPaths(spec) :
              LET o == OptionAt(spec, p)
              IN  /\ EmptyText(o.m.id) => ErrorCount("option_id", p) = 1
                  /\ EmptyText(o.m.label) => ErrorCount("option_label", p) = 1

AbsentTopLevelKeys(root) ==
    {i \in 1..Len(TOP_LEVEL_REQUIRED_KEYS) : ~Has(root, TOP_LEVEL_REQUIRED_KEYS[i])}

\* C3: for a root mapping that lacks a top-level key, validate_spec raises
\* SpecValidationError whose lines are the missing-key line of every absent key, in
\* the order of TOP_LEVEL_REQUIRED_KEYS, and nothing else.
C3_OnlyMissingKeyErrors ==
    (Validated /\ IsDict(spec) /\ AbsentTopLevelKeys(spec) # {}) =>
        /\ exc = "SpecValidationError"
        /\ Len(errors) = Cardinality(AbsentTopLevelKeys(spec))
        /\ \A n \in 1..Len(errors) :
              /\ errors[n].code = "missing_top_level"
              /\ \E i \in AbsentTopLevelKeys(spec) :
                    /\ errors[n].key = TOP_LEVEL_REQUIRED_KEYS[i]
                    /\ Cardinality({j \in AbsentTopLevelKeys(spec) : j < i}) = n - 1

\* a root with two keys absent whose branding, which is present, is no object
C3_Witness ==
    /\ Validated
    /\ IsDict(spec)
    /\ Cardinality(AbsentTopLevelKeys(spec)) = 2
    /\ Has(spec, "branding") /\ ~IsDict(spec.m.branding)
    /\ Len(errors) = 2

\* the places, in sections[i].fields[j] and sections[i].fields[j].options[k], that
\* hold a well-formed id: a string with a character that is no whitespace, as the id
\* of a field with its five keys or of an option of such a checkbox_group field
IdPaths(root) ==
    {p \in FieldPaths(root) : NonBlankStr(FieldAt(root, p).m.id)}
    \cup {p \in OptionPaths(root) :
             /\ NonBlankStr(FieldAt(root, <<p[1], p[2]>>).m.id)
             /\ NonBlankStr(OptionAt(root, p).m.id)}

IdAt(root, p) == IF Len(p) = 2 THEN FieldAt(root, p).m.id.m ELSE OptionAt(root, p).m.id.m

\* reading order: section, then field, then the field before its options, then option
Before(q, p) ==
    \/ q[1] < p[1]
    \/ q[1] = p[1] /\ q[2] < p[2]
    \/ q[1] = p[1] /\ q[2] = p[2] /\ Len(q) < Len(p)
    \/ q[1] = p[1] /\ q[2] = p[2] /\ Len(q) = 3 /\ Len(p) = 3 /\ q[3] < p[3]

DuplicateErrors ==
    {n \in 1..Len(errors) : errors[n].code \in {"dup_field_id", "dup_option_id"}}

\* C4: one set of ids is shared by all sections, fields and checkbox_group options:
\* in reading order the first occurrence of an id is accepted and every later one adds
\* one duplicate-id error, so the duplicate-id errors number the well-formed id
\* occurrences minus the distinct ids, and validation fails when that is positive.
C4_OneErrorPerLaterOccurrence ==
    Validated =>
        /\ \A p \in IdPaths(spec) :
              (\E q \in IdPaths(spec) : Before(q, p) /\ IdAt(spec, q) = IdAt(spec, p))
              <=> (\E n \in DuplicateErrors :
                      errors[n].path = p /\ errors[n].id = IdAt(spec, p))
        /\ Cardinality(DuplicateErrors) =
              Cardinality(IdPaths(spec)) - Cardinality({IdAt(spec, p) : p \in IdPaths(spec)})
        /\ Cardinality(DuplicateErrors) > 0 => exc = "SpecValidationError"

-----------------------------------------------------------------------------
(* The data model and rules 1-9 of the validator, with NonEmpty the        *)
(* reading of "non-empty" for the texts whose emptiness the rules exclude. *)

HexPattern(s) ==
    LET body == IF s # <<>> /\ Head(s) = "#" THEN Tail(s) ELSE s
    IN  Len(body) = 6 /\ \A i \in 1..6 : body[i] \in HexDigits

NonEmptyText(s) == Len(s) > 0

NotBlankText(s) == \E i \in 1..Len(s) : s[i] \notin Whitespace

Text(v, NonEmpty(_)) == IsStr(v) /\ NonEmpty(v.m)

OptionRules(o, NonEmpty(_)) ==
    /\ IsDict(o)
    /\ Has(o, "id") /\ Text(o.m.id, NonEmpty)
    /\ Has(o, "label") /\ Text(o.m.label, NonEmpty)

FieldRules(f, NonEmpty(_)) ==
    /\ HasFiveKeys(f)
    /\ Text(f.m.id, NonEmpty)
    /\ IsStr(f.m.type) /\ f.m.type.m \in ALLOWED_FIELD_TYPES
    /\ IsBool(f.m.required)
    /\ Text(f.m.label, NonEmpty)
    /\ IsStr(f.m.help_text)
    /\ f.m.type.m = T_dropdown =>
          /\ Has(f, "options") /\ IsList(f.m.options) /\ Len(f.m.options.m) > 0
          /\ \A n \in 1..Len(f.m.options.m) : Text(f.m.options.m[n], NonEmpty)
    /\ f.m.type.m = T_checkbox_group =>
          /\ Has(f, "options") /\ IsList(f.m.options) /\ Len(f.m.options.m) > 0
          /\ \A n \in 1..Len(f.m.options.m) : OptionRules(f.m.options.m[n], NonEmpty)

SectionRules(section, NonEmpty(_)) ==
    /\ IsDict(section)
    /\ Has(section, "id") /\ Text(section.m.id, NonEmpty)
    /\ Has(section, "title") /\ Text(section.m.title, NonEmpty)
    /\ Has(section, "fields") /\ IsList(section.m.fields) /\ Len(section.m.fields.m) > 0
    /\ \A j \in 1..Len(section.m.fields.m) : FieldRules(section.m.fields.m[j], NonEmpty)

\* every id of a field or of a checkbox_group option, with its place
AllIdPlaces(root) ==
    LET fields == UNION {{<<i, j>> : j \in 1..Len(FieldsAt(root, i))} :
                         i \in 1..Len(root.m.sections.m)}
    IN  fields \cup UNION {{Append(p, n) : n \in 1..Len(FieldAt(root, p).m.options.m)} :
                           p \in {p \in fields : IsGroup(FieldAt(root, p))}}

SatisfiesRules(root, NonEmpty(_)) ==
    /\ HasAllTopLevelKeys(root)
    /\ IsDict(root.m.metadata) /\ IsDict(root.m.branding) /\ IsDict(root.m.document_layout)
    /\ IsList(root.m.sections) /\ Len(root.m.sections.m) > 0
    /\ Has(root.m.document_layout, "margin_cm") =>
          /\ root.m.document_layout.m.margin_cm.k = "num"
          /\ root.m.document_layout.m.margin_cm.m > 0
    /\ \A i \in 1..Len(COLOR_KEYS) :
          /\ Has(root.m.branding, COLOR_KEYS[i])
          /\ IsStr(root.m.branding.m[COLOR_KEYS[i]])
          /\ HexPattern(root.m.branding.m[COLOR_KEYS[i]].m)
    /\ \A key \in {"heading_font", "body_font", "logo_path"} :
          /\ Has(root.m.branding, key)
          /\ IsStr(root.m.branding.m[key])
          /\ Len(root.m.branding.m[key].m) > 0
    /\ \A i \in 1..Len(root.m.sections.m) : SectionRules(root.m.sections.m[i], NonEmpty)
    /\ \A p, q \in AllIdPlaces(root) : p # q => IdAt(root, p) # IdAt(root, q)

\* C5 as stated: a tree that satisfies the data model and rules 1-9, its texts
\* non-empty, passes validate_spec.
C5_ValidSpecPasses ==
    [][(Validate /\ SatisfiesRules(spec, NonEmptyText)) => exc' = "none"]_vars

\* C5 as amended: a tree that satisfies the data model and rules 1-9, where a
\* non-empty section id or title, field id or label, option id or label or dropdown
\* option is one with a character that is no whitespace, passes validate_spec.
C5_ValidSpecPassesNotBlank ==
    [][(Validate /\ SatisfiesRules(spec, NotBlankText)) => exc' = "none"]_vars

\* a valid tree passed: it has a section description, a field with an unknown key and
\* an empty help_text
C5_Witness ==
    /\ pc = "validated"
    /\ SatisfiesRules(spec, NotBlankText)
    /\ Has(spec.m.sections.m[1], "description")
    /\ \E p \in FieldPaths(spec) :
          Has(FieldAt(spec, p), "note") /\ FieldAt(spec, p).m.help_text.m = <<>>

-----------------------------------------------------------------------------
(* Properties of the planner inside build_base_document.                   *)

\* C6: the placeholders build_base_document returns for a tree that passed
\* validate_spec have pairwise distinct field_id values and pairwise distinct markers,
\* and each marker is "[[FIELD:" + field_id + "]]".
C6_DistinctPlaceholders ==
    /\ \A i, j \in 1..Len(placeholders) :
          i # j => /\ placeholders[i].field_id # placeholders[j].field_id
                   /\ placeholders[i].marker # placeholders[j].marker
    /\ \A i \in 1..Len(placeholders) :
          placeholders[i].marker =
              <<"[", "[", "F", "I", "E", "L", "D", ":">> \o placeholders[i].field_id
                  \o <<"]", "]">>

\* build_base_document returned three or more placeholders
C6_Witness == pc = "built" /\ Len(placeholders) >= 3

\* the placeholders planned for one field: type, id, label and required of each
ExpectedOfField(f) ==
    IF f.m.type.m = T_info_block THEN <<>>
    ELSE IF f.m.type.m = T_checkbox_group
    THEN [n \in 1..Len(f.m.options.m) |->
             [field_type |-> T_checkbox, field_id |-> f.m.options.m[n].m.id.m,
              label |-> f.m.options.m[n].m.label.m, required |-> f.m.required.m]]
    ELSE <<[field_type |-> f.m.type.m, field_id |-> f.m.id.m, label |-> f.m.label.m,
            required |-> f.m.required.m]>>

RECURSIVE ExpectedOfFields(_)
ExpectedOfFields(fields) ==
    IF fields = <<>> THEN <<>>
    ELSE ExpectedOfField(Head(fields)) \o ExpectedOfFields(Tail(fields))

RECURSIVE ExpectedOfSections(_)
ExpectedOfSections(sections) ==
    IF sections = <<>> THEN <<>>
    ELSE ExpectedOfFields(Head(sections).m.fields.m) \o ExpectedOfSections(Tail(sections))

Planned(phs) ==
    [n \in 1..Len(phs) |->
        [field_type |-> phs[n].field_type, field_id |-> phs[n].field_id,
         label |-> phs[n].label, required |-> phs[n].required]]

\* C7: for every tree that passed validate_spec, build_base_document returns the
\* placeholders in reading order: none for an info_block, one checkbox placeholder per
\* option of a checkbox_group (the option's id and label, the group's required), one
\* for a field of any other type.
C7_PlannedInReadingOrder ==
    [][BuildBase => /\ pc' = "built"
                    /\ Planned(placeholders') = ExpectedOfSections(spec.m.sections.m)]_vars

-----------------------------------------------------------------------------
(* Properties of apply_com_controls and run_generation.                    *)

BaseText == Flatten(base_doc.paragraphs)

\* C8: when the marker of every placeholder occurs exactly once in the document,
\* replace_marker_with_control returns 1 for every placeholder, in whatever order,
\* and no marker-resolution error is raised.
C8_EveryMarkerResolved ==
    (/\ base_doc.exists
     /\ word_doc.state # "none"
     /\ \A i \in 1..Len(placeholders) : Occurrences(BaseText, placeholders[i].marker) = 1)
    => /\ \A n \in 1..Len(counts) : counts[n] = 1
       /\ replacement_errors = <<>>
       /\ exc # "RuntimeError"

\* C9: when the marker of a placeholder occurs N >= 2 times in the document,
\* replace_marker_with_control returns N and the failure names the marker and N.
C9_EveryOccurrenceCounted ==
    (/\ base_doc.exists
     /\ Len(counts) >= 1
     /\ Occurrences(BaseText, placeholders[1].marker) >= 2)
    => /\ counts[1] = Occurrences(BaseText, placeholders[1].marker)
       /\ \E n \in 1..Len(replacement_errors) :
             /\ replacement_errors[n].code = "multiple"
             /\ replacement_errors[n].count = Occurrences(BaseText, placeholders[1].marker)
             /\ replacement_errors[n].marker = placeholders[1].marker

ValidationPassed == file_state = "ok" /\ validate_spec(spec).exc = "none"

\* C10: the output path is written only on a fully successful run: by SaveAs2 after
\* validation passed, the base document was built, Word was started and every
\* placeholder had exactly one match; by copyfile, under --no-com only, after
\* validation passed and the base document was built.  A run that is validate-only or
\* accumulated a marker-resolution error writes nothing, and the document of a failed
\* resolution is closed, not saved.
C10_OutputOnlyOnSuccess ==
    /\ out_file.written =>
          /\ ValidationPassed
          /\ ~validate_only
          /\ build_base_document(spec).exc = "none"
          /\ out_file.via = "copyfile" => no_com
          /\ out_file.via = "SaveAs2" =>
                /\ ~no_com
                /\ word_app # "none"
                /\ Len(counts) = Len(placeholders)
                /\ \A n \in 1..Len(counts) : counts[n] = 1
                /\ replacement_errors = <<>>
    /\ (replacement_errors # <<>> /\ pc \in {"com_quit", "returned", "failed", "done"}) =>
          /\ word_doc.state \in {"closed", "close_raised"}
          /\ ~out_file.written

\* SaveAs2 wrote the output of a run with two or more placeholders
C10_Witness == out_file.written /\ out_file.via = "SaveAs2" /\ Len(placeholders) >= 2

-----------------------------------------------------------------------------
(* Properties of apply_plain_fallback.                                     *)

\* no paragraph of the base document holds the marker of a placeholder
NoMarkerLeft ==
    \A i \in 1..Len(base_doc.paragraphs), n \in 1..Len(placeholders) :
        Occurrences(base_doc.paragraphs[i], placeholders[n].marker) = 0

\* C11: after one pass of apply_plain_fallback no paragraph holds the marker of any
\* placeholder, and a second pass with the same placeholders changes no paragraph.
C11_FallbackIdempotent ==
    [][PlainFallbackAgain => (NoMarkerLeft /\ base_doc' = base_doc)]_vars

\* the glyph the fallback output shows for a field type
ExpectedGlyph(field_type) ==
    IF field_type = <<"c", "h", "e", "c", "k", "b", "o", "x">> THEN <<"[", " ", "]">>
    ELSE IF field_type = <<"d", "a", "t", "e">>
    THEN <<"_", "_", "-", "_", "_", "-", "_", "_", "_", "_">>
    ELSE IF field_type = <<"d", "r", "o", "p", "d", "o", "w", "n">>
    THEN <<"[", "K", "i", "e", "s", " ", "e", "e", "n", " ", "o", "p", "t", "i", "e", "]">>
    ELSE IF field_type = <<"s", "i", "g", "n", "a", "t", "u", "r", "e", "_", "l", "i", "n", "e">>
    THEN [i \in 1..45 |-> IF i <= 30 THEN "_"
                          ELSE <<" ", "(", "H", "a", "n", "d", "t", "e", "k", "e", "n", "i",
                                 "n", "g", ")">>[i - 30]]
    ELSE IF field_type = <<"t", "e", "x", "t", "_", "l", "o", "n", "g">>
    THEN [i \in 1..44 |-> "_"]
    ELSE [i \in 1..28 |-> "_"]

\* text with the marker of every placeholder replaced by the glyph of its type
RECURSIVE WithGlyphs(_, _)
WithGlyphs(text, phs) ==
    IF phs = <<>> THEN text
    ELSE WithGlyphs(StrReplace(text, Head(phs).marker, ExpectedGlyph(Head(phs).field_type)),
                    Tail(phs))

\* C12: the specification with the required text_short "name" and the checkbox_group
\* "symptoms" with options "pain" and "fatigue" plans the placeholders [[FIELD:name]],
\* [[FIELD:pain]], [[FIELD:fatigue]] in that order; the fallback shows the underscored
\* blank for the first and "[ ]" for the two others.  For every specification whose
\* markers each occur once in the base document, the fallback puts in the place of each
\* marker the glyph of the placeholder's field_type, whatever its id, label and required.
C12_FallbackScenario ==
    pc = "fallback_applied" =>
       LET built == build_base_document(spec).paragraphs
           doc == base_doc.paragraphs
       IN  /\ spec.m.sections = ScenarioSections =>
                /\ [n \in 1..Len(placeholders) |-> placeholders[n].marker]
                      = <<marker_for(S_name), marker_for(S_pain), marker_for(S_fatigue)>>
                /\ [n \in 1..Len(placeholders) |-> placeholders[n].field_type]
                      = <<T_text_short, T_checkbox, T_checkbox>>
                /\ Len(doc) = Len(built)
                /\ \E i \in 1..Len(built) :
                      built[i] = marker_for(S_name) /\ doc[i] = [c \in 1..28 |-> "_"]
                /\ \E i \in 1..Len(built) :
                      /\ built[i] = marker_for(S_pain) \o <<" ">> \o S_L
                      /\ doc[i] = <<"[", " ", "]", " ">> \o S_L
                /\ \E i \in 1..Len(built) :
                      /\ built[i] = marker_for(S_fatigue) \o <<" ">> \o S_M
                      /\ doc[i] = <<"[", " ", "]", " ">> \o S_M
                /\ NoMarkerLeft
           /\ (\A n \in 1..Len(placeholders) :
                    Occurrences(Flatten(built), placeholders[n].marker) = 1) =>
                doc = [i \in 1..Len(built) |-> WithGlyphs(built[i], placeholders)]

\* the fallback ran on the scenario
C12_Witness == pc = "fallback_applied" /\ spec.m.sections = ScenarioSections

-----------------------------------------------------------------------------
(* Properties of main.                                                     *)

\* C13: main returns 0 exactly when run_generation completed without raising and 1 for
\* every failure of any stage, an unexpected exception included; a run that has not
\* returned has no exit code, and a run that raised or completed goes on to return one.
C13_ExitCode ==
    /\ pc = "done" =>
          /\ exit_code \in {0, 1}
          /\ exit_code = 0 <=> exc = "none"
          /\ exit_code = 0 => ValidationPassed /\ (validate_only \/ out_file.written)
    /\ pc # "done" => exit_code = -1
    /\ pc = "failed" => exc # "none" /\ ENABLED MainReturn
    /\ pc = "returned" => exc = "none" /\ ENABLED MainReturn

\* main returned 1 after an exception that is none of the four it names
C13_Witness == pc = "done" /\ exit_code = 1 /\ exc \in {"KeyError", "TypeError", "com_error"}

-----------------------------------------------------------------------------
(* More properties of apply_com_controls.                                  *)

\* the lines of the failure for the counts returned so far: one per count that is not 1
RECURSIVE ExpectedLines(_, _)
ExpectedLines(cs, phs) ==
    IF cs = <<>> THEN <<>>
    ELSE LET n == Len(cs)
             line == IF cs[n] = 1 THEN <<>>
                     ELSE <<[code |-> IF cs[n] = 0 THEN "not_found" ELSE "multiple",
                             count |-> cs[n], marker |-> phs[n].marker]>>
         IN  ExpectedLines(SubSeq(cs, 1, n - 1), phs) \o line

\* C14: apply_com_controls goes on to the next placeholder whatever the count of the
\* last one was, records one line per placeholder whose count is 0 or above 1, in
\* placeholder order, none for a count of 1, and raises the failure only after the last
\* placeholder.
C14_AllPlaceholdersProcessed ==
    /\ [](/\ Len(counts) = ph_index - 1
          /\ replacement_errors = ExpectedLines(counts, placeholders))
    /\ [][/\ (ComReplace /\ exc' = "none") => (ph_index' = ph_index + 1 /\ pc' = "com_loop")
          /\ ComRaiseErrors => (Len(counts) = Len(placeholders) /\ replacement_errors # <<>>)
         ]_vars

\* the failure was raised with a line for a marker not found before a line for a marker
\* found several times
C14_Witness ==
    /\ pc = "com_finally"
    /\ exc = "RuntimeError"
    /\ Len(counts) = 2
    /\ Len(replacement_errors) = 2
    /\ replacement_errors[1].code = "not_found"
    /\ replacement_errors[2].code = "multiple"

AfterComSession == pc \in {"returned", "failed", "done"}

\* C15: once the Word application object exists, Quit is attempted on every exit path,
\* and once a document is open, Close is attempted before Quit; an exception of Close
\* does not prevent Quit, and an exception of Close or Quit neither replaces the failure
\* that was propagating nor makes a successful run fail.
C15_CloseAndQuitAlways ==
    /\ [](/\ (AfterComSession /\ word_app # "none") => word_app \in {"quit", "quit_raised"}
          /\ (AfterComSession /\ word_doc.state # "none")
                => word_doc.state \in {"closed", "close_raised"}
          /\ word_app \in {"quit", "quit_raised"} => word_doc.state # "open"
          /\ (AfterComSession /\ out_file.via = "SaveAs2") => (exc = "none" /\ pc # "failed"))
    /\ [][(ComClose \/ ComQuit) => exc' = exc]_vars

\* a failed resolution whose Close and Quit both raised: the marker failure is kept
C15_Witness ==
    /\ pc = "failed"
    /\ exc = "RuntimeError"
    /\ replacement_errors # <<>>
    /\ word_doc.state = "close_raised"
    /\ word_app = "quit_raised"

-----------------------------------------------------------------------------
(* More properties of build_base_document.                                 *)

\* C16: the base document build_base_document wrote for a tree that passed
\* validate_spec holds the marker of every returned placeholder exactly once, counted
\* over the text of all its paragraphs, whatever the labels and ids are.
C16_EachMarkerOnce ==
    pc = "built" =>
       \A n \in 1..Len(placeholders) :
           Occurrences(Flatten(base_doc.paragraphs), placeholders[n].marker) = 1

-----------------------------------------------------------------------------
(* More properties of validate_spec.                                       *)

\* the key is absent, or its value is no string of six hex digits with an optional
\* leading "#" (blanks around it set aside)
BadColor(branding, key) ==
    \/ ~Has(branding, key)
    \/ ~IsStr(branding.m[key])
    \/ ~HexPattern(Strip(branding.m[key].m))

\* C17: for each of the five colour keys of branding, validate_spec raises
\* SpecValidationError with an error for that key whenever the key is absent or its
\* value is not a string of six hex digits with an optional leading "#"; a number and
\* an empty string are rejected.  Runs that end in another exception are set aside.
C17_ColorsChecked ==
    [][(/\ Validate
        /\ HasAllTopLevelKeys(spec)
        /\ IsDict(spec.m.branding)
        /\ exc' \in {"none", "SpecValidationError"})
       => \A i \in 1..Len(COLOR_KEYS) :
              BadColor(spec.m.branding, COLOR_KEYS[i])
                 => /\ exc' = "SpecValidationError"
                    /\ \E n \in 1..Len(errors') :
                          errors'[n].code = "color" /\ errors'[n].key = COLOR_KEYS[i]]_vars

====
